---- MODULE Spec2Model ----
(***************************************************************************)
(* A model of evtpdl_diff.py: the parser of evt.pdl files, the Particle     *)
(* record with its id-only equality and tolerant diff, the four ordering   *)
(* modes, the difflib.SequenceMatcher alignment the program calls, and the *)
(* table builder with its row compression.                                  *)
(*                                                                         *)
(* Representation.                                                          *)
(*  - A float is an integer number of millionths (FloatScale units), so a   *)
(*    mass of 0.1396 is 139600.  The input sets hold no pair of floats     *)
(*    whose distance is exactly the tolerance and no float that lies       *)
(*    exactly half way between two roundings: there the binary double of   *)
(*    the program decides, and the decimal arithmetic of the model does    *)
(*    not follow it.                                                        *)
(*  - A token of a line is a record [s, k, n]: its text s, what Python's   *)
(*    int() and float() make of it (k = "int": both accept it, "float":    *)
(*    only float() does, "word": neither), and the number n it denotes     *)
(*    (an integer, or millionths for k = "float").                          *)
(*  - A line is [star, toks]: whether its first character is '*', and      *)
(*    line.split().  A blank line has no token.                            *)
(*  - A value handed to _add_row is a record [t, n, s] with t one of       *)
(*    "int", "float", "str" and "fmt"; "fmt" is the string an f-string     *)
(*    with the 'g' presentation type makes of a float, held as the number  *)
(*    (in millionths) that the string denotes.                              *)
(*  - Indices of opcodes are Python's: zero-based, half-open.               *)
(***************************************************************************)
EXTENDS Integers, Sequences, FiniteSets, TLC

VARIABLES
    lines,         \* parse_evtpdl: the lines of the file being read
    pst,           \* parse_evtpdl: the state of its loop
    fileA, fileB,  \* the lines of the two files named at construction
    order,         \* self.order
    tolerance,     \* self.tolerance, a fraction [num, den]
    precision,     \* self.precision
    pc,            \* where the program is
    A, B,          \* the two particle lists of fill() / _compare()
    opcodes,       \* what get_opcodes() returned
    tbody,         \* self._tbody: the rows of the table
    lastparticle,  \* self._lastparticle: <<>> for None, else <<name, id>>
    calls,         \* history: the slices fill() handed to _compare/_removed/_added
    log            \* the lines logging.error was called for

vars == <<lines, pst, fileA, fileB, order, tolerance, precision, pc,
          A, B, opcodes, tbody, lastparticle, calls, log>>

-----------------------------------------------------------------------------
(* Bounds of the model. *)

MaxLines == 4       \* lines of a file read by parse_evtpdl alone
MaxParticles == 2   \* data lines of each file compared by fill()
MaxList == 3        \* data lines of each file ordered by fill()'s ordering step alone
MaxPairs == 2       \* pairs handed to _compare alone
MaxRows == 3        \* calls of _add_row alone

-----------------------------------------------------------------------------
(* Sequences *)

RECURSIVE SeqsUpTo(_, _)
SeqsUpTo(S, n) ==
    IF n = 0 THEN {<<>>}
    ELSE LET shorter == SeqsUpTo(S, n - 1)
         IN  shorter \cup {Append(s, x) : s \in {t \in shorter : Len(t) = n - 1}, x \in S}

\* s[lo:hi] of Python, for 0 <= lo and hi within the list or beyond it
Slice(s, lo, hi) ==
    LET h == IF hi > Len(s) THEN Len(s) ELSE hi
    IN  IF lo >= h THEN <<>> ELSE SubSeq(s, lo + 1, h)

RECURSIVE Concat(_)
Concat(ss) == IF ss = <<>> THEN <<>> ELSE Head(ss) \o Concat(Tail(ss))

Abs(x) == IF x < 0 THEN -x ELSE x
Max(x, y) == IF x >= y THEN x ELSE y

-----------------------------------------------------------------------------
(* Floats, tokens and values *)

FloatScale == 10 ^ 6

W(s) == [s |-> s, k |-> "word", n |-> 0]
I(n) == [s |-> ToString(n), k |-> "int", n |-> n]
F(s, millionths) == [s |-> s, k |-> "float", n |-> millionths]

IntV(n) == [t |-> "int", n |-> n, s |-> ""]
FloatV(x) == [t |-> "float", n |-> x, s |-> ""]
StrV(s) == [t |-> "str", n |-> 0, s |-> s]
FmtV(x) == [t |-> "fmt", n |-> x, s |-> ""]

\* str(), int() and float() of Particle.TYPES, applied to a token or to the int nr
\* (which the model holds as the token I(nr): the three agree on the two)
CanConvert(type, tok) ==
    CASE type = "str" -> TRUE
      [] type = "int" -> tok.k = "int"
      [] type = "float" -> tok.k \in {"int", "float"}
Convert(type, tok) ==
    CASE type = "str" -> tok.s
      [] type = "int" -> tok.n
      [] type = "float" -> IF tok.k = "int" THEN tok.n * FloatScale ELSE tok.n

-----------------------------------------------------------------------------
(* class Particle *)

Fields == <<"name", "id", "mass", "width", "max_dM", "charge", "spin",
            "lifetime", "pythiaId", "line">>
TYPES == <<"str", "int", "float", "float", "float", "int", "int", "float", "int", "int">>

FieldTypes == [f \in {Fields[i] : i \in 1..Len(Fields)} |->
                  TYPES[CHOOSE i \in 1..Len(Fields) : Fields[i] = f]]
FieldType(f) == FieldTypes[f]

\* Particle(*args), for ten arguments (another number is a TypeError): the
\* namedtuple takes its fields by position
Particle(args) ==
    [name |-> args[1], id |-> args[2], mass |-> args[3], width |-> args[4],
     max_dM |-> args[5], charge |-> args[6], spin |-> args[7], lifetime |-> args[8],
     pythiaId |-> args[9], line |-> args[10]]

\* the field of a particle as a Python value
FieldValue(p, f) ==
    LET type == FieldType(f)
    IN  CASE type = "str" -> StrV(p[f])
          [] type = "int" -> IntV(p[f])
          [] type = "float" -> FloatV(p[f])

\* Particle.__eq__ (and __hash__): the id alone
ParticleEq(p, q) == p.id = q.id

DefaultTolerance == [num |-> 1, den |-> 100000]

\* math.isclose(a, b, rel_tol=t, abs_tol=t) on millionths:
\* |a-b| <= max(t * max(|a|, |b|), t)
MathIsClose(a, b, t) ==
    Abs(a - b) <= (t.num * Max(FloatScale, Max(Abs(a), Abs(b)))) \div t.den

\* isclose of Particle.diff: by type of the value of self
IsClose(a, b, t) ==
    IF a.t = "float" THEN MathIsClose(a.n, b.n, t) ELSE a = b

\* Particle.diff(other, tolerance): the fields of _fields[:-1], in order, whose
\* values are not close, each with both values
ParticleDiff(p, q, t) ==
    LET RECURSIVE Walk(_)
        Walk(i) ==
            IF i > Len(Fields) - 1 THEN <<>>
            ELSE LET f == Fields[i]
                     a == FieldValue(p, f)
                     b == FieldValue(q, f)
                 IN  (IF IsClose(a, b, t) THEN <<>>
                      ELSE <<[property |-> f, old |-> a, new |-> b]>>) \o Walk(i + 1)
    IN  Walk(1)

-----------------------------------------------------------------------------
(* parse_evtpdl *)

Marker == <<"add", "p", "Particle">>

ParseInit == [nr |-> 0, particles |-> <<>>, log |-> <<>>, status |-> "reading"]

\* values = line.split()[3:] + [nr]
LineValues(line, nr) == Slice(line.toks, 3, Len(line.toks)) \o <<I(nr)>>

\* [convert(e) for convert, e in zip(Particle.TYPES, values)]: zip stops at the
\* shorter of the two
ZipLen(values) == IF Len(values) < Len(TYPES) THEN Len(values) ELSE Len(TYPES)
Converts(values) == \A i \in 1..ZipLen(values) : CanConvert(TYPES[i], values[i])
Converted(values) == [i \in 1..ZipLen(values) |-> Convert(TYPES[i], values[i])]

\* the texts of tokens, as line.split() gives them
Texts(toks) == [i \in 1..Len(toks) |-> toks[i].s]

\* 'continue', and the end of the loop body: on to the next line
ParseContinue(st) == [st EXCEPT !.nr = st.nr + 1]
\* 'break' at the 'end' line, with a variant that reads on
ParseBreak_continues(st) == [st EXCEPT !.nr = st.nr + 1]
ParseBreak(st) == [st EXCEPT !.status = "returned"]

\* one turn of the loop 'for nr, line in enumerate(f)'
ParseLine(st, line) ==
    IF line.star THEN ParseContinue(st)
    ELSE IF line.toks = <<>> THEN ParseContinue(st)
    ELSE IF line.toks[1].s = "end" THEN ParseBreak(st)
    ELSE IF Texts(Slice(line.toks, 0, 3)) # Marker
         THEN ParseContinue([st EXCEPT !.log = Append(st.log, st.nr)])
    ELSE LET values == LineValues(line, st.nr)
         IN  IF ~Converts(values) \/ ZipLen(values) # Len(Fields)
             THEN [st EXCEPT !.status = "raised"]
             ELSE ParseContinue([st EXCEPT
                      !.particles = Append(st.particles, Particle(Converted(values)))])

\* the whole of parse_evtpdl(name) on the lines of the file
RECURSIVE ParseFrom(_, _)
ParseFrom(st, ls) ==
    IF st.status # "reading" THEN st
    ELSE IF st.nr >= Len(ls) THEN [st EXCEPT !.status = "returned"]
    ELSE ParseFrom(ParseLine(st, ls[st.nr + 1]), ls)

parse_evtpdl(ls) == ParseFrom(ParseInit, ls)

-----------------------------------------------------------------------------
(* Sorting *)

\* The names the model's files use, in the order of Python's comparison of str
\* (by code point: upper case before lower case).
NameOrder == <<"PI+", "e-", "mu-", "pi+">>
NameRank(s) == CHOOSE i \in 1..Len(NameOrder) : NameOrder[i] = s

\* list.sort(key=...) and sorted(..., key=...): stable, ascending.  keys[i] is
\* the key of s[i]; the element at place k of the result is the one with k - 1
\* elements before it by (key, place).
StableSort(s, keys) ==
    LET Before(j, i) == keys[j] < keys[i] \/ (keys[j] = keys[i] /\ j < i)
        At(k) == CHOOSE i \in 1..Len(s) :
                     Cardinality({j \in 1..Len(s) : Before(j, i)}) = k - 1
    IN  [k \in 1..Len(s) |-> s[At(k)]]

SortByName(s) == StableSort(s, [i \in 1..Len(s) |-> NameRank(s[i].name)])
SortById(s) == StableSort(s, [i \in 1..Len(s) |-> s[i].id])
SortByLine(s) == StableSort(s, [i \in 1..Len(s) |-> s[i].line])

\* {b.id: b for b in B}: a dict keeps the place of the first insertion of a key
\* and the value of the last.  The model holds it as the list of its values.
RECURSIVE DictById(_)
DictById(bs) ==
    IF bs = <<>> THEN <<>>
    ELSE LET d == DictById(SubSeq(bs, 1, Len(bs) - 1))
             b == bs[Len(bs)]
         IN  IF \E i \in 1..Len(d) : d[i].id = b.id
             THEN [i \in 1..Len(d) |-> IF d[i].id = b.id THEN b ELSE d[i]]
             ELSE Append(d, b)

\* the loop of _sort_by over A: Bdict.pop(a.id, None), appended when not None;
\* st is [dict, out]
RECURSIVE SortByLoop(_, _)
SortByLoop(as, st) ==
    IF as = <<>> THEN st
    ELSE LET a == Head(as)
             hit == {i \in 1..Len(st.dict) : st.dict[i].id = a.id}
         IN  IF hit = {} THEN SortByLoop(Tail(as), st)
             ELSE LET at == CHOOSE i \in hit : TRUE
                  IN  SortByLoop(Tail(as),
                          [dict |-> SubSeq(st.dict, 1, at - 1)
                                      \o SubSeq(st.dict, at + 1, Len(st.dict)),
                           out |-> Append(st.out, st.dict[at])])

\* PDLDiffTable._sort_by(A, B)
SortBy_rest_first(As, Bs) ==
    LET st == SortByLoop(As, [dict |-> DictById(Bs), out |-> <<>>])
    IN  SortByLine(st.dict) \o st.out
SortBy(As, Bs) ==
    LET st == SortByLoop(As, [dict |-> DictById(Bs), out |-> <<>>])
    IN  st.out \o SortByLine(st.dict)

\* the ordering step of fill(): the pair of lists handed to the aligner
Ordered(ord, As, Bs) ==
    CASE ord = "name" -> <<SortByName(As), SortByName(Bs)>>
      [] ord = "id" -> <<SortById(As), SortById(Bs)>>
      [] ord = "a" -> <<As, SortBy(As, Bs)>>
      [] ord = "b" -> <<SortBy(Bs, As), Bs>>
      [] OTHER -> <<As, Bs>>

-----------------------------------------------------------------------------
(* difflib.SequenceMatcher(a=A, b=B), as fill() uses it: no junk, and lists  *)
(* shorter than the 200 elements from which difflib drops popular elements. *)

\* the length of the run of equal elements that ends at a[i], b[j] and stays
\* within a[alo:] and b[blo:]  (newj2len[j] of find_longest_match)
RECURSIVE RunLen(_, _, _, _, _, _)
RunLen(a, b, alo, blo, i, j) ==
    IF i < alo \/ j < blo THEN 0
    ELSE IF ~ParticleEq(a[i + 1], b[j + 1]) THEN 0
    ELSE 1 + RunLen(a, b, alo, blo, i - 1, j - 1)

\* find_longest_match(alo, ahi, blo, bhi): the longest block; of several, the one
\* that starts earliest in a; of those, the one that starts earliest in b
FindLongestMatch(a, b, alo, ahi, blo, bhi) ==
    LET ends == {<<i, j>> \in (alo..(ahi - 1)) \X (blo..(bhi - 1)) :
                    ParticleEq(a[i + 1], b[j + 1])}
    IN  IF ends = {} THEN [i |-> alo, j |-> blo, k |-> 0]
        ELSE LET len(e) == RunLen(a, b, alo, blo, e[1], e[2])
                 best == CHOOSE e \in ends :
                            \A f \in ends :
                               \/ len(e) > len(f)
                               \/ len(e) = len(f) /\ e[1] < f[1]
                               \/ len(e) = len(f) /\ e[1] = f[1] /\ e[2] <= f[2]
                 k == len(best)
             IN  [i |-> best[1] - k + 1, j |-> best[2] - k + 1, k |-> k]

\* the blocks get_matching_blocks collects from its queue, sorted
RECURSIVE Blocks(_, _, _, _, _, _)
Blocks(a, b, alo, ahi, blo, bhi) ==
    LET x == FindLongestMatch(a, b, alo, ahi, blo, bhi)
    IN  IF x.k = 0 THEN <<>>
        ELSE (IF alo < x.i /\ blo < x.j THEN Blocks(a, b, alo, x.i, blo, x.j) ELSE <<>>)
             \o <<x>>
             \o (IF x.i + x.k < ahi /\ x.j + x.k < bhi
                 THEN Blocks(a, b, x.i + x.k, ahi, x.j + x.k, bhi) ELSE <<>>)

\* adjacent blocks collapsed into one
RECURSIVE Collapse(_, _)
Collapse(cur, bs) ==
    IF bs = <<>> THEN (IF cur.k > 0 THEN <<cur>> ELSE <<>>)
    ELSE LET nb == Head(bs)
         IN  IF cur.i + cur.k = nb.i /\ cur.j + cur.k = nb.j
             THEN Collapse([cur EXCEPT !.k = cur.k + nb.k], Tail(bs))
             ELSE (IF cur.k > 0 THEN <<cur>> ELSE <<>>) \o Collapse(nb, Tail(bs))

\* get_matching_blocks(): the blocks, and the sentinel (len(a), len(b), 0)
GetMatchingBlocks(a, b) ==
    Collapse([i |-> 0, j |-> 0, k |-> 0], Blocks(a, b, 0, Len(a), 0, Len(b)))
        \o <<[i |-> Len(a), j |-> Len(b), k |-> 0]>>

\* get_opcodes(): (tag, i1, i2, j1, j2)
RECURSIVE OpcodesFrom(_, _, _)
OpcodesFrom(i, j, bs) ==
    IF bs = <<>> THEN <<>>
    ELSE LET blk == Head(bs)
             tag == IF i < blk.i /\ j < blk.j THEN "replace"
                    ELSE IF i < blk.i THEN "delete"
                    ELSE IF j < blk.j THEN "insert"
                    ELSE ""
         IN  (IF tag # ""
              THEN <<[tag |-> tag, i1 |-> i, i2 |-> blk.i, j1 |-> j, j2 |-> blk.j]>>
              ELSE <<>>)
             \o (IF blk.k > 0
                 THEN <<[tag |-> "equal", i1 |-> blk.i, i2 |-> blk.i + blk.k,
                         j1 |-> blk.j, j2 |-> blk.j + blk.k]>>
                 ELSE <<>>)
             \o OpcodesFrom(blk.i + blk.k, blk.j + blk.k, Tail(bs))

GetOpcodes(a, b) == OpcodesFrom(0, 0, GetMatchingBlocks(a, b))

-----------------------------------------------------------------------------
(* class PDLDiffTable *)

\* the orders __init__ accepts (after order.lower())
Orders == {"id", "name", "a", "b"}

\* f'{value:.{precision}g}': the float rounded to `precision` significant digits
\* (a precision of 0 counts as 1), on millionths.  A value half way between two
\* roundings goes where its binary double lies, which millionths do not tell: the
\* values of the inputs below are none of them half way.
RECURSIVE NumDigits(_)
NumDigits(x) == IF x < 10 THEN 1 ELSE 1 + NumDigits(x \div 10)

FormatG(x, prec) ==
    LET p == Max(prec, 1)
        n == NumDigits(Abs(x))
        q == 10 ^ (n - p)
        lo == Abs(x) \div q
        rest == Abs(x) % q
        up == 2 * rest > q
        r == (IF up THEN lo + 1 ELSE lo) * q
    IN  IF n <= p THEN x ELSE IF x < 0 THEN -r ELSE r

\* 'if isinstance(value, float): value = f"{value:.{self.precision}g}"'
Formatted(v, prec) == IF v.t = "float" THEN FmtV(FormatG(v.n, prec)) ELSE v

\* str(r) of a cell
PyStr(v) == IF v.t = "int" THEN StrV(ToString(v.n)) ELSE v

\* the classes of a row of kind 'changed', with a variant that sets them before
\* the row is compressed
ChangedClasses_early(what, classes, compressed) ==
    IF what = "changed" /\ ~compressed
    THEN [classes EXCEPT ![5] = "removed", ![6] = "added"] ELSE classes
ChangedClasses(what, classes, compressed) ==
    IF what = "changed"
    THEN [classes EXCEPT ![5] = "removed", ![6] = "added"] ELSE classes

\* _add_row(what, name, id, property, valueA, valueB, lineA, lineB), r the record
\* of its arguments, on tb = [tbody, last] (self._tbody, self._lastparticle).
\* A row of tbody is [row, cells, classes, rowclass]: 'row' is the list row as it
\* is before the compression (history), 'cells' the texts of the td elements.
AddRow(tb, r, prec) ==
    LET valueA == Formatted(r.valueA, prec)
        valueB == Formatted(r.valueB, prec)
        full == <<StrV(r.what), r.name, r.id, StrV(r.property), valueA, valueB,
                  r.lineA, r.lineB>>
        compressed == tb.last = <<r.name, r.id>>
        row == IF compressed
               THEN <<StrV(""), StrV(""), StrV(""), StrV(r.property), valueA, valueB,
                      StrV(""), StrV("")>>
               ELSE full
        classes == IF compressed
                   THEN <<"", "", "", r.what, r.what, r.what, "", "">>
                   ELSE [i \in 1..8 |-> r.what]
        rowclass == IF compressed THEN "" ELSE "newparticle"
    IN  [tbody |-> Append(tb.tbody,
                      [row |-> full,
                       cells |-> [i \in 1..8 |-> PyStr(row[i])],
                       classes |-> ChangedClasses(r.what, classes, compressed),
                       rowclass |-> rowclass]),
         last |-> <<r.name, r.id>>]

\* a run of calls of _add_row, in order.  A call reads of the table only
\* _lastparticle, which the call before it set to its own [name, id]: the row of
\* each call is computed from the call before it.
AddRows(tb, rs, prec) ==
    LET lastBefore(k) == IF k = 1 THEN tb.last ELSE <<rs[k - 1].name, rs[k - 1].id>>
        rowOf(k) == AddRow([tbody |-> <<>>, last |-> lastBefore(k)], rs[k], prec).tbody[1]
    IN  IF rs = <<>> THEN tb
        ELSE [tbody |-> tb.tbody \o [k \in 1..Len(rs) |-> rowOf(k)],
              last |-> <<rs[Len(rs)].name, rs[Len(rs)].id>>]

\* the tolerance _compare lets Particle.diff use: a.diff(b) names none, so it is
\* the default of diff whatever self.tolerance is
CompareTolerance(self_tolerance) == DefaultTolerance

\* the calls of _add_row that _compare makes for one pair
CompareCalls(a, b, self_tolerance) ==
    LET diff == ParticleDiff(a, b, CompareTolerance(self_tolerance))
    IN  (IF diff = <<>>
         THEN <<[what |-> "", name |-> StrV(a.name), id |-> IntV(a.id), property |-> "",
                 valueA |-> StrV(""), valueB |-> StrV(""),
                 lineA |-> IntV(a.line), lineB |-> IntV(b.line)]>>
         ELSE <<>>)
        \o [i \in 1..Len(diff) |->
               [what |-> "changed", name |-> StrV(a.name), id |-> IntV(a.id),
                property |-> diff[i].property,
                valueA |-> diff[i].old, valueB |-> diff[i].new,
                lineA |-> IntV(a.line), lineB |-> IntV(b.line)]]

\* _compare(A, B): 'for a, b in zip(A, B)'; the calls of _add_row it makes, and
\* the table after them
CompareRowCalls(As, Bs, self_tolerance) ==
    LET pairs == IF Len(As) < Len(Bs) THEN Len(As) ELSE Len(Bs)
    IN  Concat([i \in 1..pairs |-> CompareCalls(As[i], Bs[i], self_tolerance)])
Compare(tb, As, Bs, self_tolerance, prec) ==
    AddRows(tb, CompareRowCalls(As, Bs, self_tolerance), prec)

\* zip(b._fields[2:-1], b[2:]): the pairs (key, value), as many as the shorter
RowKeys_from_id == Slice(Fields, 1, Len(Fields) - 1)
RowKeys == Slice(Fields, 2, Len(Fields) - 1)
RowValues(p) == [i \in 1..(Len(Fields) - 2) |-> FieldValue(p, Fields[i + 2])]
ZipFields(p) ==
    LET ks == RowKeys
        vs == RowValues(p)
        shorter == IF Len(ks) < Len(vs) THEN Len(ks) ELSE Len(vs)
    IN  [i \in 1..shorter |-> [key |-> ks[i], value |-> vs[i]]]

\* the calls of _add_row that _added and _removed make for one particle
AddedCalls(b) ==
    LET z == ZipFields(b)
    IN  [i \in 1..Len(z) |->
            [what |-> "added", name |-> StrV(b.name), id |-> IntV(b.id),
             property |-> z[i].key,
             valueA |-> StrV("--"), valueB |-> z[i].value,
             lineA |-> StrV("--"), lineB |-> IntV(b.line)]]
RemovedCalls(a) ==
    LET z == ZipFields(a)
    IN  [i \in 1..Len(z) |->
            [what |-> "removed", name |-> StrV(a.name), id |-> IntV(a.id),
             property |-> z[i].key,
             valueA |-> z[i].value, valueB |-> StrV("--"),
             lineA |-> IntV(a.line), lineB |-> StrV("--")]]

\* _added(B) and _removed(A): the calls of _add_row they make, and the table
\* after them
AddedRowCalls(Bs) == Concat([i \in 1..Len(Bs) |-> AddedCalls(Bs[i])])
RemovedRowCalls(As) == Concat([i \in 1..Len(As) |-> RemovedCalls(As[i])])
Added(tb, Bs, prec) == AddRows(tb, AddedRowCalls(Bs), prec)
Removed(tb, As, prec) == AddRows(tb, RemovedRowCalls(As), prec)

\* the tags of fill() that hand A[i1:i2] to _removed and B[j1:j2] to _added
ToRemoved_delete_only(tag) == tag = "delete"
ToRemoved(tag) == tag \in {"delete", "replace"}
ToAdded(tag) == tag \in {"insert", "replace"}

\* the body of the loop of fill() over the opcodes, for the opcode op: the calls
\* of _add_row that _compare, _removed and _added make, in this order
OpcodeRowCalls(op, As, Bs, self_tolerance) ==
    LET sa == Slice(As, op.i1, op.i2)
        sb == Slice(Bs, op.j1, op.j2)
    IN  (IF op.tag = "equal" THEN CompareRowCalls(sa, sb, self_tolerance) ELSE <<>>)
        \o (IF ToRemoved(op.tag) THEN RemovedRowCalls(sa) ELSE <<>>)
        \o (IF ToAdded(op.tag) THEN AddedRowCalls(sb) ELSE <<>>)

\* the loop of fill() over the opcodes: the table after it
WalkOpcodes(tb, ops, As, Bs, self_tolerance, prec) ==
    AddRows(tb,
            Concat([i \in 1..Len(ops) |-> OpcodeRowCalls(ops[i], As, Bs, self_tolerance)]),
            prec)

\* history: the calls the body makes for op
CallsOf(op, As, Bs) ==
    LET sa == Slice(As, op.i1, op.i2)
        sb == Slice(Bs, op.j1, op.j2)
    IN  (IF op.tag = "equal" THEN <<[fn |-> "_compare", A |-> sa, B |-> sb]>> ELSE <<>>)
        \o (IF ToRemoved(op.tag) THEN <<[fn |-> "_removed", A |-> sa, B |-> <<>>]>> ELSE <<>>)
        \o (IF ToAdded(op.tag) THEN <<[fn |-> "_added", A |-> <<>>, B |-> sb]>> ELSE <<>>)

-----------------------------------------------------------------------------
(* Inputs *)

DefaultPrecision == 5

DataLine(name, id, mass, rest) ==
    [star |-> FALSE,
     toks |-> <<W("add"), W("p"), W("Particle"), W(name), I(id), mass>> \o rest]

RestPi == <<I(0), I(0), I(3), I(0), F("78.045", 78045000), I(101)>>
RestLepton == <<I(0), I(0), I(-3), I(1), I(0), I(7)>>

LineE == DataLine("e-", 11, F("0.000511", 511), RestLepton)
LineMu == DataLine("mu-", 13, F("0.10566", 105660), RestLepton)
LinePi == DataLine("pi+", 211, F("0.1396", 139600), RestPi)
LinePiRenamed == DataLine("PI+", 211, F("0.1400", 140000), RestPi)

\* the data lines of the files fill() compares
FillLines == {LineE, LineMu, LinePi, LinePiRenamed}

\* the lines of the file parse_evtpdl reads alone: a comment, a blank line, the
\* terminator, a line with another first token, a data line, one with a tenth
\* value, one with too few values, one whose id is no int
LineComment == [star |-> TRUE, toks |-> <<W("*"), W("comment")>>]
LineBlank == [star |-> FALSE, toks |-> <<>>]
LineEnd == [star |-> FALSE, toks |-> <<W("end")>>]
LineSet == [star |-> FALSE, toks |-> <<W("set"), W("p"), W("Particle"), W("e-")>>]
LineExtra == [LinePi EXCEPT !.toks = @ \o <<I(99)>>]
LineShort == [LineMu EXCEPT !.toks = SubSeq(@, 1, 8)]
LineBadId == [LineE EXCEPT !.toks[5] = W("eleven")]
ParseLines == {LineComment, LineBlank, LineEnd, LineSet, LineE, LineExtra,
               LineShort, LineBadId}

\* the files fill() compares: those of data lines, and three with a line that is
\* logged and passed over, two of which end in a line that makes the parser raise
FaultyFiles == {<<LineSet, LineE>>, <<LineSet, LineBadId>>, <<LineSet, LineSet, LineShort>>}
FillFiles == SeqsUpTo(FillLines, MaxParticles) \cup FaultyFiles

\* the pairs _compare is handed alone: the same particle with two masses
Masses == {139600, 139604, 140000, 150000000, 150001000, 150003000}
Tolerances == {DefaultTolerance, [num |-> 1, den |-> 10]}
Precisions == {DefaultPrecision, 2}
PiWith(mass, line) ==
    [name |-> "pi+", id |-> 211, mass |-> mass, width |-> 0, max_dM |-> 0,
     charge |-> 3, spin |-> 0, lifetime |-> 78045000, pythiaId |-> 101, line |-> line]
MassLists == SeqsUpTo(Masses, MaxPairs)

\* the arguments _add_row is called with alone
RowArgs ==
    [what : {"", "changed", "added"},
     name : {StrV("pi+"), StrV("PI+")},
     id : {IntV(211), IntV(11)},
     property : {"mass"},
     valueA : {FloatV(139600), StrV("--")},
     valueB : {FloatV(140000)},
     lineA : {IntV(4)},
     lineB : {IntV(7)}]

-----------------------------------------------------------------------------
(* Actions *)

\* ---- parse_evtpdl, line by line

InitParse ==
    /\ lines \in SeqsUpTo(ParseLines, MaxLines)
    /\ pst = ParseInit
    /\ pc = "parse"
    /\ fileA = <<>> /\ fileB = <<>>
    /\ order = "name"
    /\ tolerance = DefaultTolerance /\ precision = DefaultPrecision
    /\ A = <<>> /\ B = <<>> /\ opcodes = <<>>
    /\ tbody = <<>> /\ lastparticle = <<>> /\ calls = <<>> /\ log = <<>>

\* one turn of the loop over the lines
ParseTurn ==
    /\ pc = "parse"
    /\ pst.status = "reading"
    /\ pst.nr < Len(lines)
    /\ pst' = ParseLine(pst, lines[pst.nr + 1])
    /\ UNCHANGED <<lines, fileA, fileB, order, tolerance, precision, pc,
                   A, B, opcodes, tbody, lastparticle, calls, log>>

\* the file is exhausted: return particles
ParseReturn ==
    /\ pc = "parse"
    /\ pst.status = "reading"
    /\ pst.nr >= Len(lines)
    /\ pst' = [pst EXCEPT !.status = "returned"]
    /\ UNCHANGED <<lines, fileA, fileB, order, tolerance, precision, pc,
                   A, B, opcodes, tbody, lastparticle, calls, log>>

NextParse == ParseTurn \/ ParseReturn

SpecParse == InitParse /\ [][NextParse]_vars

\* ---- PDLDiffTable(fileA, fileB, order).fill()

\* the table as __init__ leaves it, for each order it accepts
Init ==
    /\ fileA \in FillFiles
    /\ fileB \in FillFiles
    /\ order \in Orders
    /\ tolerance = DefaultTolerance
    /\ precision = DefaultPrecision
    /\ pc = "constructed"
    /\ lines = <<>> /\ pst = ParseInit
    /\ A = <<>> /\ B = <<>> /\ opcodes = <<>>
    /\ tbody = <<>> /\ lastparticle = <<>> /\ calls = <<>> /\ log = <<>>

\* fill(): both files are parsed, the lists ordered and aligned, and the opcodes
\* walked.  A and B are left as the aligner saw them.
Fill ==
    /\ pc = "constructed"
    /\ \E ra \in {parse_evtpdl(fileA)} : \E rb \in {parse_evtpdl(fileB)} :
          IF ra.status = "raised" \/ rb.status = "raised"
          THEN \* file A is parsed first: if it raises, file B is never read
               /\ pc' = "raised"
               /\ log' = IF ra.status = "raised" THEN ra.log ELSE ra.log \o rb.log
               /\ UNCHANGED <<A, B, opcodes, tbody, lastparticle, calls>>
          ELSE \E ord \in {Ordered(order, ra.particles, rb.particles)} :
               \E ops \in {GetOpcodes(ord[1], ord[2])} :
               \E tb \in {WalkOpcodes([tbody |-> tbody, last |-> lastparticle], ops,
                                       ord[1], ord[2], tolerance, precision)} :
                  /\ pc' = "done"
                  /\ A' = ord[1]
                  /\ B' = ord[2]
                  /\ log' = ra.log \o rb.log
                  /\ opcodes' = ops
                  /\ tbody' = tb.tbody
                  /\ lastparticle' = tb.last
                  /\ calls' = Concat([i \in 1..Len(ops) |-> CallsOf(ops[i], ord[1], ord[2])])
    /\ UNCHANGED <<lines, pst, fileA, fileB, order, tolerance, precision>>

Next == Fill

Spec == Init /\ [][Next]_vars

\* ---- the ordering step of fill() alone, on the lists parse_evtpdl returned

InitOrder ==
    /\ fileA \in SeqsUpTo(FillLines, MaxList)
    /\ A = parse_evtpdl(fileA).particles
    /\ fileB \in SeqsUpTo(FillLines, MaxList)
    /\ B = parse_evtpdl(fileB).particles
    /\ order \in {"a", "b"}
    /\ pc = "parsed"
    /\ tolerance = DefaultTolerance /\ precision = DefaultPrecision
    /\ lines = <<>> /\ pst = ParseInit
    /\ opcodes = <<>>
    /\ tbody = <<>> /\ lastparticle = <<>> /\ calls = <<>> /\ log = <<>>

FillOrder ==
    /\ pc = "parsed"
    /\ \E ord \in {Ordered(order, A, B)} :
          /\ A' = ord[1]
          /\ B' = ord[2]
    /\ pc' = "ordered"
    /\ UNCHANGED <<lines, pst, fileA, fileB, order, tolerance, precision,
                   opcodes, tbody, lastparticle, calls, log>>

SpecOrder == InitOrder /\ [][FillOrder]_vars

\* ---- _compare(A, B) alone, on a table constructed with a tolerance

InitCompare ==
    /\ tolerance \in Tolerances
    /\ precision \in Precisions
    /\ \E ma \in MassLists : \E mb \in MassLists :
          /\ Len(ma) = Len(mb)
          /\ A = [i \in 1..Len(ma) |-> PiWith(ma[i], i - 1)]
          /\ B = [i \in 1..Len(mb) |-> PiWith(mb[i], i)]
    /\ pc = "compare"
    /\ lines = <<>> /\ pst = ParseInit
    /\ fileA = <<>> /\ fileB = <<>>
    /\ order = "name"
    /\ opcodes = <<>>
    /\ tbody = <<>> /\ lastparticle = <<>> /\ calls = <<>> /\ log = <<>>

CompareCall ==
    /\ pc = "compare"
    /\ LET tb == Compare([tbody |-> tbody, last |-> lastparticle], A, B,
                         tolerance, precision)
       IN  /\ tbody' = tb.tbody
           /\ lastparticle' = tb.last
    /\ pc' = "compared"
    /\ UNCHANGED <<lines, pst, fileA, fileB, order, tolerance, precision,
                   A, B, opcodes, calls, log>>

SpecCompare == InitCompare /\ [][CompareCall]_vars

\* ---- _add_row alone

InitAddRow ==
    /\ precision \in Precisions
    /\ pc = "rows"
    /\ tbody = <<>> /\ lastparticle = <<>>
    /\ lines = <<>> /\ pst = ParseInit
    /\ fileA = <<>> /\ fileB = <<>>
    /\ order = "name"
    /\ tolerance = DefaultTolerance
    /\ A = <<>> /\ B = <<>> /\ opcodes = <<>>
    /\ calls = <<>> /\ log = <<>>

AddRowCall ==
    /\ pc = "rows"
    /\ Len(tbody) < MaxRows
    /\ \E r \in RowArgs :
          LET tb == AddRow([tbody |-> tbody, last |-> lastparticle], r, precision)
          IN  /\ tbody' = tb.tbody
              /\ lastparticle' = tb.last
    /\ UNCHANGED <<lines, pst, fileA, fileB, order, tolerance, precision, pc,
                   A, B, opcodes, calls, log>>

SpecAddRow == InitAddRow /\ [][AddRowCall]_vars

-----------------------------------------------------------------------------
(* Properties *)

Ids(ps) == {ps[i].id : i \in 1..Len(ps)}
UniqueIds(ps) == \A i, j \in 1..Len(ps) : ps[i].id = ps[j].id => i = j
Count(ps, x) == Cardinality({i \in 1..Len(ps) : ps[i] = x})
Elems(ps) == {ps[i] : i \in 1..Len(ps)}
\* the subsequence of the elements at the places of keep, in order
Filter(ps, keep) ==
    [k \in 1..Cardinality(keep) |->
        ps[CHOOSE i \in keep : Cardinality({j \in keep : j < i}) = k - 1]]

\* the slices of A and of B that the calls of fill() were handed, joined in order
HandedA == Concat([i \in 1..Len(calls) |->
              IF calls[i].fn \in {"_compare", "_removed"} THEN calls[i].A ELSE <<>>])
HandedB == Concat([i \in 1..Len(calls) |->
              IF calls[i].fn \in {"_compare", "_added"} THEN calls[i].B ELSE <<>>])

\* C1: when fill() has walked the opcodes, the slices of A handed to _compare and
\* _removed, joined in order, are A, and the slices of B handed to _compare and
\* _added are B: every record of either ordered list is reported once, in order.
C1_Coverage == pc = "done" => HandedA = A /\ HandedB = B

\* a run with a replace opcode (a delete and an insert at once) and an equal one
C1_Witness ==
    /\ pc = "done"
    /\ \E i \in 1..Len(opcodes) : opcodes[i].tag = "replace"
    /\ \E i \in 1..Len(opcodes) : opcodes[i].tag = "equal"

\* the float values of a pair differ by more than the tolerance t allows
\* (in millionths: |x - y| > t * max(1, |x|, |y|), the bound rounded down)
Exceeds(x, y, t) ==
    Abs(x - y) > (t.num * Max(FloatScale, Max(Abs(x), Abs(y)))) \div t.den

\* the table has a 'changed' row of the property for the pair on these lines
HasChangedRow(property, lineA, lineB) ==
    \E k \in 1..Len(tbody) :
        /\ tbody[k].row[1] = StrV("changed")
        /\ tbody[k].row[4] = StrV(property)
        /\ tbody[k].row[7] = IntV(lineA)
        /\ tbody[k].row[8] = IntV(lineB)

\* C2: on a table constructed with tolerance t, _compare reports the mass of a
\* pair as changed exactly when the two masses differ by more than
\* max(t, t * max(|a|, |b|)).
C2_ToleranceDecides ==
    pc = "compared" =>
        \A i \in 1..Len(A) :
            HasChangedRow("mass", A[i].line, B[i].line)
                <=> Exceeds(A[i].mass, B[i].mass, tolerance)

\* C3: with ids unique within each file, in every order, a record handed to
\* _removed has no record of B with its id, and a record handed to _added has
\* no record of A with its id.
C3_OnlyUnmatchedRemovedOrAdded ==
    (pc = "done" /\ UniqueIds(A) /\ UniqueIds(B)) =>
        \A i \in 1..Len(calls) :
            /\ calls[i].fn = "_removed" =>
                   \A k \in 1..Len(calls[i].A) : calls[i].A[k].id \notin Ids(B)
            /\ calls[i].fn = "_added" =>
                   \A k \in 1..Len(calls[i].B) : calls[i].B[k].id \notin Ids(A)

\* the place of the first record of ref with this id
FirstPos(ref, id) == CHOOSE i \in 1..Len(ref) : ref[i].id = id /\ \A j \in 1..(i - 1) : ref[j].id # id

\* R is 'from' ordered by ref: the records whose id occurs in ref first, in the
\* order of their ids in ref, then the others by ascending line; no record that
\* is not of 'from', and no id of 'from' left out
OrderedBy(ref, from, R) ==
    /\ Elems(R) \subseteq Elems(from)
    /\ Ids(R) = Ids(from)
    /\ \A i, j \in 1..Len(R) :
          i < j =>
            /\ R[j].id \in Ids(ref) => R[i].id \in Ids(ref)
            /\ R[j].id \in Ids(ref) => FirstPos(ref, R[i].id) < FirstPos(ref, R[j].id)
            /\ R[i].id \notin Ids(ref) => R[i].line <= R[j].line

\* C4: in order 'a' A keeps its order and B is ordered by A: the records whose id
\* occurs in A first, in the order of their ids in A, then the records whose id
\* does not, by ascending line.  Order 'b' is the same with A and B exchanged.
C4_SortedByOther ==
    pc = "ordered" =>
        LET A0 == parse_evtpdl(fileA).particles
            B0 == parse_evtpdl(fileB).particles
        IN  /\ order = "a" => A = A0 /\ OrderedBy(A0, B0, B)
            /\ order = "b" => B = B0 /\ OrderedBy(B0, A0, A)

\* order 'a' moved a record: B was not in this order in its file, and has two
\* records whose ids occur in A and one whose id does not
C4_Witness ==
    /\ pc = "ordered"
    /\ order = "a"
    /\ B # parse_evtpdl(fileB).particles
    /\ Cardinality(Ids(B) \cap Ids(A)) >= 2
    /\ \E k \in 1..Len(B) : B[k].id \notin Ids(A)

\* a field of a pair differs: a float by more than the default tolerance of diff
\* allows, another field by not being equal
Differs(a, b, f) ==
    IF FieldType(f) = "float" THEN Exceeds(a[f], b[f], DefaultTolerance) ELSE a[f] # b[f]
\* the nine fields that are not the line
NineFields == <<"name", "id", "mass", "width", "max_dM", "charge", "spin",
                "lifetime", "pythiaId">>
\* a value as the table shows it
Shown(v) == IF v.t = "float" THEN FmtV(FormatG(v.n, precision)) ELSE v

\* the rows C5 expects for a pair
PairRows(a, b) ==
    LET differing == Filter(NineFields, {i \in 1..9 : Differs(a, b, NineFields[i])})
    IN  IF differing = <<>>
        THEN << <<StrV(""), StrV(a.name), IntV(a.id), StrV(""), StrV(""), StrV(""),
                  IntV(a.line), IntV(b.line)>> >>
        ELSE [k \in 1..Len(differing) |->
                <<StrV("changed"), StrV(a.name), IntV(a.id), StrV(differing[k]),
                  Shown(FieldValue(a, differing[k])), Shown(FieldValue(b, differing[k])),
                  IntV(a.line), IntV(b.line)>>]

\* the rows of the table of these kinds, as _add_row was handed them
RowsOfKind(kinds) ==
    LET kept == Filter(tbody, {i \in 1..Len(tbody) : tbody[i].row[1].s \in kinds})
    IN  [k \in 1..Len(kept) |-> kept[k].row]

\* the pairs _compare was handed, in order
ComparedPairs ==
    Concat([i \in 1..Len(calls) |->
        IF calls[i].fn = "_compare"
        THEN [k \in 1..Len(calls[i].A) |-> <<calls[i].A[k], calls[i].B[k]>>]
        ELSE <<>>])

\* every pair of an equal block has one unchanged row if no field but the line
\* differs, and else one changed row for each field that differs
C5_PairRows ==
    pc = "done" =>
        RowsOfKind({"", "changed"})
            = Concat([k \in 1..Len(ComparedPairs) |->
                         PairRows(ComparedPairs[k][1], ComparedPairs[k][2])])

\* C5: every pair of an equal block has one unchanged row if no field but the line
\* differs and else one changed row for each field that differs, with a's value
\* as old and b's as new; so two identical files give one unchanged row for each
\* record and no other row.
C5_PairRowsAndIdenticalFiles ==
    /\ C5_PairRows
    /\ (pc = "done" /\ fileA = fileB) =>
          /\ Len(tbody) = Len(parse_evtpdl(fileA).particles)
          /\ \A k \in 1..Len(tbody) : tbody[k].row[1] = StrV("")

\* the seven rows C6 expects for a record handed to _removed, and to _added
SevenFields == <<"mass", "width", "max_dM", "charge", "spin", "lifetime", "pythiaId">>
RemovedRows(a) ==
    [k \in 1..7 |->
        <<StrV("removed"), StrV(a.name), IntV(a.id), StrV(SevenFields[k]),
          Shown(FieldValue(a, SevenFields[k])), StrV("--"), IntV(a.line), StrV("--")>>]
AddedRows(b) ==
    [k \in 1..7 |->
        <<StrV("added"), StrV(b.name), IntV(b.id), StrV(SevenFields[k]),
          StrV("--"), Shown(FieldValue(b, SevenFields[k])), StrV("--"), IntV(b.line)>>]
HandedToRemoved ==
    Concat([i \in 1..Len(calls) |-> IF calls[i].fn = "_removed" THEN calls[i].A ELSE <<>>])
HandedToAdded ==
    Concat([i \in 1..Len(calls) |-> IF calls[i].fn = "_added" THEN calls[i].B ELSE <<>>])

\* C6: every record handed to _removed gives seven 'removed' rows, for mass,
\* width, max_dM, charge, spin, lifetime and pythiaId in this order, each with the
\* value of that field for file A and "--" for the value and the line of file B;
\* every record handed to _added gives the seven mirrored 'added' rows.
C6_SevenRows ==
    pc = "done" =>
        /\ RowsOfKind({"removed"})
              = Concat([k \in 1..Len(HandedToRemoved) |-> RemovedRows(HandedToRemoved[k])])
        /\ RowsOfKind({"added"})
              = Concat([k \in 1..Len(HandedToAdded) |-> AddedRows(HandedToAdded[k])])

\* a run that handed records to _removed and to _added
C6_Witness == pc = "done" /\ HandedToRemoved # <<>> /\ HandedToAdded # <<>>

\* what the lines of the file are, read from the text alone
IsComment(l) == l.star
IsBlank(l) == ~l.star /\ Len(l.toks) = 0
IsTerminator(l) == ~l.star /\ Len(l.toks) > 0 /\ l.toks[1].s = "end"
HasMarker(l) ==
    /\ ~l.star
    /\ Len(l.toks) >= 3
    /\ l.toks[1].s = "add" /\ l.toks[2].s = "p" /\ l.toks[3].s = "Particle"
BeforeTerminator(i) == \A j \in 1..i : ~IsTerminator(lines[j])
\* the places of the data lines before the terminator, and of the lines skipped
\* with a diagnostic
DataPlaces == {i \in 1..Len(lines) : BeforeTerminator(i) /\ HasMarker(lines[i])}
SkippedPlaces ==
    {i \in 1..Len(lines) :
        /\ BeforeTerminator(i)
        /\ ~IsComment(lines[i]) /\ ~IsBlank(lines[i]) /\ ~HasMarker(lines[i])}
\* the k-th place of a set of places
Kth(places, k) == CHOOSE i \in places : Cardinality({j \in places : j < i}) = k - 1

\* C7: parse_evtpdl returns, in file order, one record for each line that starts
\* with 'add p Particle' and lies before the first line whose first token is
\* 'end'; the other lines give no record, and the lines with other leading tokens
\* before the terminator are each reported and passed over.
C7_OneRecordPerDataLine ==
    pst.status = "returned" =>
        /\ Len(pst.particles) = Cardinality(DataPlaces)
        /\ \A k \in 1..Len(pst.particles) :
              /\ pst.particles[k].name = lines[Kth(DataPlaces, k)].toks[4].s
              /\ pst.particles[k].id = lines[Kth(DataPlaces, k)].toks[5].n
        /\ Len(pst.log) = Cardinality(SkippedPlaces)
        /\ \A k \in 1..Len(pst.log) : pst.log[k] = Kth(SkippedPlaces, k) - 1

\* a file with a skipped line before a data line, and a data line after the
\* terminator
C7_Witness ==
    /\ pst.status = "returned"
    /\ Len(pst.particles) = 1
    /\ Len(pst.log) = 1
    /\ \E i \in 1..Len(lines) : HasMarker(lines[i]) /\ ~BeforeTerminator(i)

\* C8: the line of every record parse_evtpdl returns is the zero-based place of
\* the line it was parsed from.
C8_LineIsPlace ==
    pst.status = "returned" =>
        \A k \in 1..Len(pst.particles) :
            k <= Cardinality(DataPlaces) =>
                pst.particles[k].line = Kth(DataPlaces, k) - 1

\* C9: a row shows its name, id and lines, with the class 'newparticle', if it
\* is the first row or its (name, id) is not that of the row before, and else
\* shows them empty; its property and values are never emptied; a changed row
\* has the classes 'removed' and 'added' on its old and new value.
C9_Compression ==
    \A k \in 1..Len(tbody) :
        LET r == tbody[k]
            first == k = 1 \/ <<r.row[2], r.row[3]>> # <<tbody[k - 1].row[2], tbody[k - 1].row[3]>>
        IN  /\ first =>
                  /\ r.rowclass = "newparticle"
                  /\ \A c \in {2, 3, 7, 8} : r.cells[c] = PyStr(r.row[c])
            /\ ~first =>
                  /\ r.rowclass = ""
                  /\ \A c \in {2, 3, 7, 8} : r.cells[c] = StrV("")
            /\ \A c \in {4, 5, 6} : r.cells[c] = PyStr(r.row[c]) /\ r.cells[c] # StrV("")
            /\ r.row[1] = StrV("changed") =>
                  r.classes[5] = "removed" /\ r.classes[6] = "added"

\* a changed row that follows a row of the same particle
C9_Witness ==
    \E k \in 2..Len(tbody) :
        /\ tbody[k].row[1] = StrV("changed")
        /\ tbody[k].rowclass = ""
        /\ tbody[k].cells[2] = StrV("")

\* C10: in the orders 'a' and 'b' the list _sort_by returns is a permutation of
\* the list it reorders.
C10_Permutation ==
    pc = "ordered" =>
        LET A0 == parse_evtpdl(fileA).particles
            B0 == parse_evtpdl(fileB).particles
        IN  /\ order = "a" => \A x \in Elems(B0) \cup Elems(B) : Count(B, x) = Count(B0, x)
            /\ order = "b" => \A x \in Elems(A0) \cup Elems(A) : Count(A, x) = Count(A0, x)

====
